---- MODULE Spec2Model ----
(***************************************************************************)
(* Model of choppyzs: the NetCDF2Stats class (netcdf.py) and the           *)
(* ts_to_stats function (ts2stats.py).  Both unpack an archive of boundary *)
(* polygons into a scratch directory, open a raster time series, compute   *)
(* one block of rows per selected time step and concatenate the blocks.    *)
(*                                                                         *)
(* Text is modelled as a sequence of one-character strings, so that the    *)
(* formatting, splitting and parsing the code performs are computed.       *)
(* A raster time stamp is <<year, month, day, hour>>.  A table is a        *)
(* sequence of rows <<polygon, time stamp>>.  An optional argument is      *)
(* <<>> (Python None) or <<value>>.                                        *)
(***************************************************************************)
EXTENDS Integers, Sequences, FiniteSets, TLC

\* ---------------------------------------------------------------- bounds
MaxPolys == 2     \* boundary polygons in the shapefile: 0..MaxPolys
MaxTimes == 3     \* time steps the raster can hold
MaxChops == 2     \* chop calls made on one NetCDF2Stats object
BaseYear == 2000  \* year of the first time stamp of the raster

\* --------------------------------------------------------- text helpers
DigitChars == <<"0", "1", "2", "3", "4", "5", "6", "7", "8", "9">>

IsDigit(c) == \E i \in 1..10 : DigitChars[i] = c

DigitVal(c) == (CHOOSE i \in 1..10 : DigitChars[i] = c) - 1

RECURSIVE StrNat(_)
StrNat(n) ==
    IF n < 10 THEN <<DigitChars[n + 1]>>
    ELSE StrNat(n \div 10) \o <<DigitChars[(n % 10) + 1]>>

\* str(n) / f'{n}' of a Python int
Str(n) == IF n < 0 THEN <<"-">> \o StrNat(-n) ELSE StrNat(n)

RECURSIVE ZPad(_, _)
ZPad(s, w) == IF Len(s) >= w THEN s ELSE ZPad(<<"0">> \o s, w)

RECURSIVE DigitsVal(_)
DigitsVal(s) ==
    IF s = <<>> THEN 0
    ELSE 10 * DigitsVal(SubSeq(s, 1, Len(s) - 1)) + DigitVal(s[Len(s)])

AllDigits(s) == \A i \in 1..Len(s) : IsDigit(s[i])

\* int(s) of a Python str: <<value>>, or <<>> where Python raises ValueError
PyInt(s) ==
    IF s # <<>> /\ AllDigits(s) THEN <<DigitsVal(s)>>
    ELSE IF Len(s) > 1 /\ s[1] \in {"-", "+"} /\ AllDigits(Tail(s))
         THEN <<(IF s[1] = "-" THEN -1 ELSE 1) * DigitsVal(Tail(s))>>
         ELSE <<>>

\* s.split(sep) for a one-character separator
RECURSIVE Split(_, _)
Split(s, sep) ==
    IF \A i \in 1..Len(s) : s[i] # sep THEN <<s>>
    ELSE LET k == CHOOSE i \in 1..Len(s) :
                      s[i] = sep /\ \A j \in 1..(i - 1) : s[j] # sep
         IN  <<SubSeq(s, 1, k - 1)>> \o Split(SubSeq(s, k + 1, Len(s)), sep)

\* name.endswith(suffix)
EndsWith(name, suffix) ==
    /\ Len(name) >= Len(suffix)
    /\ SubSeq(name, Len(name) - Len(suffix) + 1, Len(name)) = suffix

\* seq[a:b] of Python, for any integers a and b
PySliceIncl(seq, a, b) ==
    LET n  == Len(seq)
        lo == IF a < 0 THEN (IF a + n < 0 THEN 0 ELSE a + n)
                       ELSE (IF a > n THEN n ELSE a)
        hi == IF b + 1 < 0 THEN (IF b + 1 + n < 0 THEN 0 ELSE b + 1 + n)
                           ELSE (IF b + 1 > n THEN n ELSE b + 1)
    IN  IF hi <= lo THEN <<>> ELSE SubSeq(seq, lo + 1, hi)

PySlice(seq, a, b) ==
    LET n  == Len(seq)
        lo == IF a < 0 THEN (IF a + n < 0 THEN 0 ELSE a + n)
                       ELSE (IF a > n THEN n ELSE a)
        hi == IF b < 0 THEN (IF b + n < 0 THEN 0 ELSE b + n)
                       ELSE (IF b > n THEN n ELSE b)
    IN  IF hi <= lo THEN <<>> ELSE SubSeq(seq, lo + 1, hi)

\* ------------------------------------------------------------ dates
\* str(d) of a numpy datetime64: 'YYYY-MM-DDTHH:00:00.000000000'
IsoStr(d) ==
    ZPad(Str(d[1]), 4) \o <<"-">> \o ZPad(Str(d[2]), 2) \o <<"-">>
        \o ZPad(Str(d[3]), 2) \o <<"T">> \o ZPad(Str(d[4]), 2)
        \o <<":", "0", "0", ":", "0", "0">>

\* re.sub('T.*$', '', s)
StripTime(s) ==
    IF \A i \in 1..Len(s) : s[i] # "T" THEN s
    ELSE LET k == CHOOSE i \in 1..Len(s) :
                      s[i] = "T" /\ \A j \in 1..(i - 1) : s[j] # "T"
         IN  SubSeq(s, 1, k - 1)

\* datetime.fromisoformat(s) for a date string: <<<<y, m, d>>>>, or <<>>
\* where Python raises ValueError
FromIsoformat(s) ==
    IF /\ Len(s) = 10
       /\ s[5] = "-" /\ s[8] = "-"
       /\ \A i \in {1, 2, 3, 4, 6, 7, 9, 10} : IsDigit(s[i])
    THEN LET y == DigitsVal(SubSeq(s, 1, 4))
             m == DigitsVal(SubSeq(s, 6, 7))
             d == DigitsVal(SubSeq(s, 9, 10))
         IN  IF y >= 1 /\ m \in 1..12 /\ d \in 1..31 THEN <<<<y, m, d>>>>
             ELSE <<>>
    ELSE <<>>

\* a > b and a >= b of two dates <<y, m, d>>
DateGT(a, b) ==
    \/ a[1] > b[1]
    \/ a[1] = b[1] /\ a[2] > b[2]
    \/ a[1] = b[1] /\ a[2] = b[2] /\ a[3] > b[3]

DateGE(a, b) == a = b \/ DateGT(a, b)

\* --------------------------------------------------------- the inputs
\* the i-th time stamp a raster can hold: January and June of successive
\* years, at midnight and at noon
StampAt(i) ==
    <<BaseYear + ((i - 1) \div 2), IF i % 2 = 1 THEN 1 ELSE 6, 1,
      IF i % 2 = 1 THEN 0 ELSE 12>>

RECURSIVE SeqOfSet(_)
SeqOfSet(S) ==
    IF S = {} THEN <<>>
    ELSE LET m == CHOOSE x \in S : \A y \in S : x <= y
         IN  <<StampAt(m)>> \o SeqOfSet(S \ {m})

\* the time coordinates of the rasters considered: every selection of the
\* time stamps, and the series of the first n of them
Rasters == {SeqOfSet(S) : S \in SUBSET (1..MaxTimes)}

Series == {SeqOfSet(1..n) : n \in 0..MaxTimes}

ShpName == <<"b", ".", "s", "h", "p">>
DbfName == <<"b", ".", "d", "b", "f">>
ShxName == <<"b", ".", "s", "h", "x">>

\* the listings of the archives considered
Archives == {<<DbfName, ShpName, ShxName>>, <<DbfName, ShxName>>}

\* the output_format arguments considered ("None" is Python's None)
Formats == {"csv", "tsv", "xlsx", "none", "None", "yaml", "json"}

\* the start_year arguments considered
StartYears == {<<>>, <<0>>, <<-1>>, <<999>>, <<BaseYear>>, <<BaseYear + 1>>,
               <<BaseYear + 2>>, <<10000>>}

\* the integers a time_range "s-e" is written from
RangeInts == (-1)..(MaxTimes + 1)

NoRange == <<-9, -9>>

AllRanges == {NoRange} \cup (RangeInts \X RangeInts)

\* the arguments of the chop calls of a whole run
FewYears == {<<>>, <<0>>, <<BaseYear + 1>>}

FewRanges == {NoRange, <<0, 0>>, <<1, 2>>}

VARIABLES
    pipeline,        \* "nc": a NetCDF2Stats object, "ts": a ts_to_stats call
    archive_exists,  \* the archive path exists
    archive_files,   \* the listing of the archive
    nc_exists,       \* the raster path exists
    polys,           \* number of polygons of the boundary file
    org_nc_times,    \* the raster's time coordinates
    scratch_exists,  \* the scratch directory exists on disk
    out_files,       \* the output paths written
    pc,              \* "new", "ready", "failed", "released" (NetCDF2Stats)
    self,            \* the fields of the NetCDF2Stats object
    hist,            \* what __init__ has done, and the error it raised
    last_chop,       \* the arguments and the outcome of the latest chop
    n_chops,         \* chop calls made
    last_export,     \* the outcome of the latest export
    ts               \* the frame of the ts_to_stats call

vars == <<pipeline, archive_exists, archive_files, nc_exists, polys,
          org_nc_times, scratch_exists, out_files, pc, self, hist,
          last_chop, n_chops, last_export, ts>>

env == <<pipeline, archive_exists, archive_files, nc_exists, polys,
         org_nc_times>>

\* ------------------------------------------------- shared operations
\* check_if_file_exists(path): the error it raises, or "none"
check_if_file_exists(exists) ==
    IF exists THEN "none" ELSE "FileNotFoundError"

\* the rows of one time step: one row per polygon, labelled with the time
Block(n, t) == [p \in 1..n |-> <<p, t>>]

RECURSIVE Blocks(_, _)
Blocks(n, times) ==
    IF times = <<>> THEN <<>>
    ELSE <<Block(n, Head(times))>> \o Blocks(n, Tail(times))

RECURSIVE Flatten(_)
Flatten(list) ==
    IF list = <<>> THEN <<>> ELSE Head(list) \o Flatten(Tail(list))

\* pd.concat(list, ignore_index=True): the error it raises and the table
PdConcat(list) ==
    IF list = <<>> THEN [err |-> "ValueError", df |-> <<>>]
    ELSE [err |-> "none", df |-> Flatten(list)]

\* ------------------------------------------------------- NetCDF2Stats
\* the file the listdir loop leaves in self.shape_file: <<name>>, or <<>>
\* when the attribute is never assigned
ShapeFileOf(files) ==
    LET idx == {i \in 1..Len(files) : EndsWith(files[i], <<".", "s", "h", "p">>)}
    IN  IF idx = {} THEN <<>>
        ELSE <<files[CHOOSE i \in idx : \A j \in idx : j <= i]>>

NoInit ==
    [err |-> "none", dir_created |-> FALSE, extracted |-> FALSE,
     vector_opened |-> FALSE, raster_opened |-> FALSE, shape_file |-> <<>>]

\* what __init__ does with the given output_format, statement by statement
InitOutcome(fmt) ==
    IF fmt \notin {"xlsx", "csv", "tsv", "none", "None"}
    THEN [NoInit EXCEPT !.err = "RuntimeError"]
    ELSE LET made == [NoInit EXCEPT !.dir_created = TRUE] IN
    IF fmt = "None"   \* output_file + '.' + None
    THEN [made EXCEPT !.err = "TypeError"]
    ELSE IF ~archive_exists   \* extract_archive raises
    THEN [made EXCEPT !.err = "PatoolError"]
    ELSE LET shp == ShapeFileOf(archive_files)
             ext == [made EXCEPT !.extracted = TRUE, !.shape_file = shp] IN
    IF shp = <<>>   \* self.shape_file was never assigned
    THEN [ext EXCEPT !.err = "AttributeError"]
    ELSE IF check_if_file_exists(TRUE) # "none"
    THEN [ext EXCEPT !.err = check_if_file_exists(TRUE)]
    ELSE IF check_if_file_exists(nc_exists) # "none"
    THEN [ext EXCEPT !.err = check_if_file_exists(nc_exists)]
    ELSE [ext EXCEPT !.vector_opened = TRUE, !.raster_opened = TRUE]

NoChop ==
    [start_year |-> <<>>, range |-> NoRange, time_range |-> <<>>,
     err |-> "never", processed |-> <<>>, rows |-> <<>>]

NetCDF2Stats_init ==
    /\ pipeline = "nc"
    /\ pc = "new"
    /\ \E fmt \in Formats :
         LET o == InitOutcome(fmt) IN
         /\ hist' = o
         /\ scratch_exists' = o.dir_created
         /\ pc' = IF o.err = "none" THEN "ready" ELSE "failed"
         /\ self' = [output_format |-> fmt,
                     output_path |-> IF o.extracted /\ o.err = "none"
                                     THEN <<"out", "zonal_stats", fmt>>
                                     ELSE <<>>,
                     shape_file |-> o.shape_file,
                     df_list |-> <<>>,
                     df |-> <<>>]
    /\ UNCHANGED <<env, out_files, last_chop, n_chops, last_export, ts>>

\* the start-year filter with a date on January 1 itself left out
StartYearTimesStrict(times, year) ==
    LET jan == FromIsoformat(Str(year) \o <<"-", "0", "1", "-", "0", "1">>)
    IN  IF times = <<>> THEN [err |-> "none", times |-> <<>>]
        ELSE IF jan = <<>> THEN [err |-> "ValueError", times |-> <<>>]
        ELSE [err |-> "none",
              times |-> SelectSeq(times, LAMBDA d :
                  DateGT(FromIsoformat(StripTime(IsoStr(d)))[1], jan[1]))]

\* the list comprehension of the start_year branch: fromisoformat is
\* evaluated once per element, so an empty raster raises nothing
StartYearTimes(times, year) ==
    LET jan == FromIsoformat(Str(year) \o <<"-", "0", "1", "-", "0", "1">>)
    IN  IF times = <<>> THEN [err |-> "none", times |-> <<>>]
        ELSE IF jan = <<>> THEN [err |-> "ValueError", times |-> <<>>]
        ELSE [err |-> "none",
              times |-> SelectSeq(times, LAMBDA d :
                  DateGE(FromIsoformat(StripTime(IsoStr(d)))[1], jan[1]))]

\* the time_range branch: split, unpack into two names, int() and slice
RangeTimes(times, text) ==
    LET parts == Split(text, "-") IN
    IF Len(parts) # 2 THEN [err |-> "ValueError", times |-> <<>>]
    ELSE LET start_index == PyInt(parts[1])
             end_index == PyInt(parts[2]) IN
         IF start_index = <<>> \/ end_index = <<>>
         THEN [err |-> "ValueError", times |-> <<>>]
         ELSE [err |-> "none",
               times |-> PySlice(times, start_index[1], end_index[1])]

\* the time selection of chop: the error it raises and nc_times
ChopSelect(times, start_year, time_range) ==
    IF start_year # <<>> /\ start_year[1] # 0   \* if start_year:
    THEN StartYearTimes(times, start_year[1])
    ELSE IF time_range # <<>> /\ time_range[1] # <<>>   \* elif time_range:
    THEN RangeTimes(times, time_range[1])
    ELSE [err |-> "none", times |-> times]

\* the time_range string written for the integers <<s, e>>
RangeText(r) ==
    IF r = NoRange THEN <<>> ELSE <<Str(r[1]) \o <<"-">> \o Str(r[2])>>

\* chop called with start_year among years and time_range written from
\* one of ranges, on an object chop was called on fewer than limit times
chop_with(years, ranges, limit) ==
    /\ pipeline = "nc"
    /\ pc = "ready"
    /\ n_chops < limit
    /\ \E sy \in years, r \in ranges :
         LET sel == ChopSelect(org_nc_times, sy, RangeText(r))
             new == Blocks(polys, sel.times) IN
         /\ last_chop' = [start_year |-> sy, range |-> r,
                          time_range |-> RangeText(r), err |-> sel.err,
                          processed |-> sel.times, rows |-> Flatten(new)]
         /\ self' = [self EXCEPT !.df_list = self.df_list \o new]
    /\ n_chops' = n_chops + 1
    /\ UNCHANGED <<env, scratch_exists, out_files, pc, hist, last_export, ts>>

chop == chop_with(FewYears, FewRanges, MaxChops)

chop_once == chop_with(StartYears, AllRanges, 1)

NoExport == [status |-> "no", chops |-> 0, df |-> <<>>]

\* last_export records the outcome of the call, the number of chop calls
\* made before it and the table it returned
export ==
    /\ pipeline = "nc"
    /\ pc = "ready"
    /\ LET c == PdConcat(self.df_list) IN
       IF c.err # "none"
       THEN /\ last_export' = [status |-> c.err, chops |-> n_chops, df |-> <<>>]
            /\ UNCHANGED <<self, out_files>>
       ELSE /\ last_export' = [status |-> "ok", chops |-> n_chops, df |-> c.df]
            /\ self' = [self EXCEPT !.df = c.df]
            /\ out_files' =
                 IF self.output_format \in {"csv", "tsv", "xlsx"}
                 THEN out_files \cup {self.output_path}
                 ELSE out_files
    /\ UNCHANGED <<env, scratch_exists, pc, hist, last_chop, n_chops, ts>>

\* the last reference to the object is dropped: the finalizer of its
\* TemporaryDirectory removes the scratch directory
release ==
    /\ pipeline = "nc"
    /\ pc \in {"ready", "failed"}
    /\ pc' = "released"
    /\ scratch_exists' = FALSE
    /\ UNCHANGED <<env, out_files, self, hist, last_chop, n_chops,
                   last_export, ts>>

\* --------------------------------------------------------- ts_to_stats
TsStart ==
    [pc |-> "start", err |-> "none", shape_file |-> <<>>, db_open |-> FALSE,
     i |-> 0, dfs |-> <<>>, df |-> <<>>, dir_created |-> FALSE,
     stale_read |-> FALSE]

\* check_if_file_exists(shape_file_archive); check_if_file_exists(ts_file)
ts_check_files ==
    /\ pipeline = "ts"
    /\ ts.pc = "start"
    /\ LET e1 == check_if_file_exists(archive_exists)
           e2 == check_if_file_exists(nc_exists) IN
       ts' = IF e1 # "none" THEN [ts EXCEPT !.pc = "failed", !.err = e1]
             ELSE IF e2 # "none" THEN [ts EXCEPT !.pc = "failed", !.err = e2]
             ELSE [ts EXCEPT !.pc = "checked"]
    /\ UNCHANGED <<env, scratch_exists, out_files, pc, self, hist, last_chop,
                   n_chops, last_export>>

\* read_shapefile: with TemporaryDirectory() as temp_dir
ts_enter_temp_dir ==
    /\ pipeline = "ts"
    /\ ts.pc = "checked"
    /\ scratch_exists' = TRUE
    /\ ts' = [ts EXCEPT !.pc = "in_temp_dir", !.dir_created = TRUE]
    /\ UNCHANGED <<env, out_files, pc, self, hist, last_chop, n_chops,
                   last_export>>

\* the first file glob('*.shp') lists: <<name>>, or <<>> when [0] raises
FirstShapeFile(files) ==
    LET idx == {i \in 1..Len(files) : EndsWith(files[i], <<".", "s", "h", "p">>)}
    IN  IF idx = {} THEN <<>>
        ELSE <<files[CHOOSE i \in idx : \A j \in idx : i <= j]>>

\* the body of the with block, with an exception leaving the block
\* without the directory being removed
ts_read_in_temp_dir_leaky ==
    /\ pipeline = "ts"
    /\ ts.pc = "in_temp_dir"
    /\ LET shp == FirstShapeFile(archive_files) IN
       IF shp = <<>>
       THEN /\ ts' = [ts EXCEPT !.pc = "failed", !.err = "IndexError"]
            /\ scratch_exists' = scratch_exists
       ELSE /\ ts' = [ts EXCEPT !.pc = "returning", !.shape_file = shp,
                                !.db_open = TRUE]
            /\ scratch_exists' = scratch_exists
    /\ UNCHANGED <<env, out_files, pc, self, hist, last_chop, n_chops,
                   last_export>>

\* the body of the with block: extract, pick the shapefile, read it and
\* open the fiona handle; an exception leaves the block, which removes
\* the directory
ts_read_in_temp_dir ==
    /\ pipeline = "ts"
    /\ ts.pc = "in_temp_dir"
    /\ LET shp == FirstShapeFile(archive_files) IN
       IF shp = <<>>
       THEN /\ ts' = [ts EXCEPT !.pc = "failed", !.err = "IndexError"]
            /\ scratch_exists' = FALSE
       ELSE /\ ts' = [ts EXCEPT !.pc = "returning", !.shape_file = shp,
                                !.db_open = TRUE]
            /\ scratch_exists' = scratch_exists
    /\ UNCHANGED <<env, out_files, pc, self, hist, last_chop, n_chops,
                   last_export>>

\* return boundaries_df, boundaries_db: leaving the with block removes the
\* directory while the handle stays open
ts_leave_temp_dir ==
    /\ pipeline = "ts"
    /\ ts.pc = "returning"
    /\ scratch_exists' = FALSE
    /\ ts' = [ts EXCEPT !.pc = "shape_read"]
    /\ UNCHANGED <<env, out_files, pc, self, hist, last_chop, n_chops,
                   last_export>>

read_ts ==
    /\ pipeline = "ts"
    /\ ts.pc = "shape_read"
    /\ ts' = [ts EXCEPT !.pc = "chopping", !.i = 1]
    /\ UNCHANGED <<env, scratch_exists, out_files, pc, self, hist, last_chop,
                   n_chops, last_export>>

\* one iteration of the loop of chop: zonal_stats reads boundaries_db.
\* Whether a read of a handle whose files were removed succeeds depends on
\* the platform, so both outcomes are possible.
ts_chop_step ==
    /\ pipeline = "ts"
    /\ ts.pc = "chopping"
    /\ ts.i <= Len(org_nc_times)
    /\ \E outcome \in (IF scratch_exists THEN {"ok"} ELSE {"ok", "error"}) :
         ts' = IF outcome = "ok"
               THEN [ts EXCEPT !.i = ts.i + 1,
                               !.dfs = ts.dfs \o
                                   <<Block(polys, org_nc_times[ts.i])>>,
                               !.stale_read = ts.stale_read \/ ~scratch_exists]
               ELSE [ts EXCEPT !.pc = "failed", !.err = "StaleHandleError",
                               !.stale_read = ts.stale_read \/ ~scratch_exists]
    /\ UNCHANGED <<env, scratch_exists, out_files, pc, self, hist, last_chop,
                   n_chops, last_export>>

\* return pd.concat(dfs, ignore_index=True)
ts_chop_return ==
    /\ pipeline = "ts"
    /\ ts.pc = "chopping"
    /\ ts.i > Len(org_nc_times)
    /\ LET c == PdConcat(ts.dfs) IN
       ts' = IF c.err # "none" THEN [ts EXCEPT !.pc = "failed", !.err = c.err]
             ELSE [ts EXCEPT !.pc = "done", !.df = c.df]
    /\ UNCHANGED <<env, scratch_exists, out_files, pc, self, hist, last_chop,
                   n_chops, last_export>>

\* ------------------------------------------------------ specification
Init ==
    /\ pipeline \in {"nc", "ts"}
    /\ archive_exists \in BOOLEAN
    /\ archive_files \in Archives
    /\ nc_exists \in BOOLEAN
    /\ polys \in 0..MaxPolys
    /\ org_nc_times \in Series
    /\ scratch_exists = FALSE
    /\ out_files = {}
    /\ pc = "new"
    /\ self = [output_format |-> "csv", output_path |-> <<>>,
               shape_file |-> <<>>, df_list |-> <<>>, df |-> <<>>]
    /\ hist = NoInit
    /\ last_chop = NoChop
    /\ n_chops = 0
    /\ last_export = NoExport
    /\ ts = TsStart

Next ==
    \/ NetCDF2Stats_init
    \/ chop
    \/ export
    \/ release
    \/ ts_check_files
    \/ ts_enter_temp_dir
    \/ ts_read_in_temp_dir
    \/ ts_leave_temp_dir
    \/ read_ts
    \/ ts_chop_step
    \/ ts_chop_return

Spec == Init /\ [][Next]_vars

\* the time selection alone: an object constructed on a readable archive
\* and raster, and one chop call with any of the arguments
InitSelect ==
    /\ pipeline = "nc"
    /\ archive_exists = TRUE
    /\ archive_files = <<DbfName, ShpName, ShxName>>
    /\ nc_exists = TRUE
    /\ polys = 1
    /\ org_nc_times \in Rasters
    /\ scratch_exists = TRUE
    /\ out_files = {}
    /\ pc = "ready"
    /\ self = [output_format |-> "none",
               output_path |-> <<"out", "zonal_stats", "none">>,
               shape_file |-> <<ShpName>>, df_list |-> <<>>, df |-> <<>>]
    /\ hist = InitOutcome("none")
    /\ last_chop = NoChop
    /\ n_chops = 0
    /\ last_export = NoExport
    /\ ts = TsStart

NextSelect ==
    \/ chop_once
    \/ export
    \/ release

SpecSelect == InitSelect /\ [][NextSelect]_vars


\* ------------------------------------------------------------- claims
SupportedFormats == {"csv", "tsv", "xlsx", "none"}

\* export was called after the latest chop and no call followed it
ExportIsLatest == last_export.status # "no" /\ last_export.chops = n_chops

\* C1: after construction, one chop that retains K time steps and then
\* export, export returns a table of exactly P * K rows, for every K >= 0.
C1_RowCount ==
    (/\ pipeline = "nc"
     /\ n_chops = 1
     /\ last_chop.err = "none"
     /\ ExportIsLatest)
    => /\ last_export.status = "ok"
       /\ Len(last_export.df) = polys * Len(last_chop.processed)

\* C2: the table export returns holds exactly the rows of the most recent
\* chop, and no row of an earlier chop.
C2_NoCarriedRows ==
    (/\ pipeline = "nc"
     /\ n_chops >= 1
     /\ ExportIsLatest
     /\ last_export.status = "ok")
    => last_export.df = last_chop.rows

\* the time steps of the raster dated on or after January 1 of year
OnOrAfter(year) == SelectSeq(org_nc_times, LAMBDA d : d[1] >= year)

\* C3 as stated: for every integer start_year, with or without time_range,
\* chop processes exactly the time steps dated on or after January 1 of
\* that year, in order.
C3_AnyStartYear ==
    (n_chops = 1 /\ last_chop.start_year # <<>>)
    => /\ last_chop.err = "none"
       /\ last_chop.processed = OnOrAfter(last_chop.start_year[1])

\* C3 as amended: for every start_year from 1000 to 9999, with or without
\* time_range, chop processes exactly the time steps dated on or after
\* January 1 of that year, in order.
C3_FourDigitStartYear ==
    (/\ n_chops = 1
     /\ last_chop.start_year # <<>>
     /\ last_chop.start_year[1] \in 1000..9999)
    => /\ last_chop.err = "none"
       /\ last_chop.processed = OnOrAfter(last_chop.start_year[1])

C3_Witness ==
    /\ n_chops = 1
    /\ last_chop.start_year = <<BaseYear + 1>>
    /\ last_chop.range = <<0, 1>>
    /\ Len(org_nc_times) >= 3
    /\ last_chop.processed # <<>>
    /\ last_chop.processed # org_nc_times
    /\ last_chop.processed # <<org_nc_times[1]>>

\* the time steps at the indices i with s <= i < e, counted from 0
IndexRange(s, e) ==
    LET idx == {i \in 0..(Len(org_nc_times) - 1) : s <= i /\ i < e}
    IN  [k \in 1..Cardinality(idx) |-> org_nc_times[s + k]]

\* C4 as stated: with only time_range "s-e" given, for all integers s and
\* e, chop processes exactly the time steps at indices s <= i < e.
C4_AnyRange ==
    (/\ n_chops = 1
     /\ last_chop.start_year = <<>>
     /\ last_chop.range # NoRange)
    => /\ last_chop.err = "none"
       /\ last_chop.processed =
              IndexRange(IF last_chop.range[1] < 0 THEN 0
                         ELSE last_chop.range[1], last_chop.range[2])

\* C4 as amended: with only time_range "s-e" given, for all integers
\* s >= 0 and e >= 0, chop processes exactly the time steps at indices
\* s <= i < e.
C4_NonNegativeRange ==
    (/\ n_chops = 1
     /\ last_chop.start_year = <<>>
     /\ last_chop.range # NoRange
     /\ last_chop.range[1] >= 0
     /\ last_chop.range[2] >= 0)
    => /\ last_chop.err = "none"
       /\ last_chop.processed =
              IndexRange(last_chop.range[1], last_chop.range[2])

C4_Witness ==
    /\ n_chops = 1
    /\ last_chop.start_year = <<>>
    /\ last_chop.range = <<1, 2>>
    /\ Len(org_nc_times) >= 3
    /\ last_chop.processed = <<org_nc_times[2]>>

\* C5: an output format outside csv, tsv, xlsx, none makes the constructor
\* raise the configuration error before the scratch directory is created,
\* the archive extracted or a file opened.
C5_BadFormatRaisesFirst ==
    (/\ pipeline = "nc"
     /\ pc # "new"
     /\ self.output_format \notin SupportedFormats)
    => /\ hist.err = "RuntimeError"
       /\ ~hist.dir_created
       /\ ~hist.extracted
       /\ ~hist.vector_opened
       /\ ~hist.raster_opened

\* the errors that report a path that does not exist: the one of
\* check_if_file_exists and the one of the archive library
MissingFileErrors == {"FileNotFoundError", "PatoolError"}

\* C6: when the archive or the raster path does not exist, the
\* constructor raises the missing-file error before the archive is
\* extracted and before the vector or raster file is opened.
C6_MissingFileBeforeExtraction ==
    (/\ pipeline = "nc"
     /\ pc # "new"
     /\ self.output_format \in SupportedFormats
     /\ (~archive_exists \/ ~nc_exists))
    => /\ hist.err \in MissingFileErrors
       /\ ~hist.extracted
       /\ ~hist.vector_opened
       /\ ~hist.raster_opened

\* the construction, the export or the ts_to_stats call has ended
OperationEnded ==
    \/ pipeline = "nc" /\ (pc = "failed" \/ last_export.status # "no")
    \/ pipeline = "ts" /\ ts.pc \in {"done", "failed"}

\* C7 as stated: in both pipelines the scratch directory no longer exists
\* once the operation has ended, normally or by an error.
C7_RemovedWhenOperationEnds == OperationEnded => ~scratch_exists

\* C7 as amended: in ts_to_stats the scratch directory exists only inside
\* the with block of read_shapefile, whichever way the block is left; in
\* NetCDF2Stats it exists from its creation until the object is released,
\* and not only until __init__, chop or export ends.
C7_ScratchLifetime ==
    /\ pipeline = "ts" =>
         (scratch_exists <=> ts.pc \in {"in_temp_dir", "returning"})
    /\ pipeline = "nc" =>
         (scratch_exists <=> (hist.dir_created /\ pc # "released"))

C7_Witness ==
    /\ pipeline = "ts"
    /\ ts.pc = "failed"
    /\ ts.err = "IndexError"
    /\ ts.dir_created
    /\ ~scratch_exists

\* C8: when the extracted archive holds no .shp file, both pipelines fail
\* with a boundary-file-not-found error, not with a missing attribute or
\* an index out of range.
C8_BoundaryFileNotFound ==
    /\ (/\ pipeline = "nc"
        /\ hist.extracted
        /\ ShapeFileOf(archive_files) = <<>>)
       => hist.err = "BoundaryFileNotFoundError"
    /\ (/\ pipeline = "ts"
        /\ ts.dir_created
        /\ ts.pc \notin {"in_temp_dir"}
        /\ FirstShapeFile(archive_files) = <<>>)
       => ts.err = "BoundaryFileNotFoundError"

\* C9: export returns the concatenation of every accumulated block; with
\* format none it writes no file, with csv, tsv or xlsx exactly the file
\* at the output path.
C9_ExportWritesAndReturns ==
    (pipeline = "nc" /\ ExportIsLatest)
    => /\ last_export.status = "ok"
       /\ last_export.df = Flatten(self.df_list)
       /\ self.output_format = "none" => out_files = {}
       /\ self.output_format \in {"csv", "tsv", "xlsx"}
              => out_files = {<<"out", "zonal_stats", self.output_format>>}

\* C10: in ts_to_stats no zonal-statistics step reads the boundary handle
\* after the scratch directory holding its file has been removed.
C10_NoReadAfterRemoval == ~ts.stale_read

====
